---------------------------- MODULE Spec2Model ----------------------------
(***************************************************************************)
(* A model of the CIM financial extractor (src/streamlit_app.py): the      *)
(* OCR-text normaliser, the parser of the model reply, the in-place        *)
(* normalisation of the extraction result (flatten, rename, candidate      *)
(* resolution) and the projection of the result onto spreadsheet cells.    *)
(*                                                                         *)
(* Python dicts are insertion ordered: a dict is a sequence of entries     *)
(* [k, v] with distinct keys; assigning an existing key keeps its place,   *)
(* assigning a new key appends it.  Text is a sequence of one-character    *)
(* strings.  A model reply is a sequence of lexemes (fence marker, json    *)
(* tag, whitespace, prose, one JSON text).                                 *)
(***************************************************************************)
EXTENDS Integers, Sequences, FiniteSets, TLC

VARIABLES
    pc,        \* position of run(): "run", "extract", "parse", "process", "pick", "excel", "done", "stopped"
    outcome,   \* how the run ended (or "running")
    calls,     \* number of openai.chat.completions.create calls issued
    reply,     \* response_text handed to parse_ai_response
    parsed,    \* the object json.loads returned (kept for observation)
    data,      \* the extraction result, mutated in place by process_data
    pickIdx,   \* which of the four pick_metric_group calls of process_data is next
    selected,  \* the label chosen in each pick_metric_group call so far ("" when the call returned early)
    reached,   \* set of run() stages entered: "process_data", "update_excel_template"
    flattened, \* flattened_data of update_excel_template
    attempts,  \* sequence of attempted cell writes [key, sheet, cell, v]
    cells,     \* workbook cells actually overwritten: set of [sheet, cell, v]
    download,  \* TRUE when st.download_button was offered
    text,      \* raw OCR text given to the normaliser
    out1,      \* result of the first normalisation
    out2,      \* result of normalising out1 again
    tpc        \* position of the text-normaliser harness

vars == << pc, outcome, calls, reply, parsed, data, pickIdx, selected, reached,
           flattened, attempts, cells, download, text, out1, out2, tpc >>

runVars == << pc, outcome, calls, reply, parsed, data, pickIdx, selected, reached,
              flattened, attempts, cells, download >>

textVars == << text, out1, out2, tpc >>

-----------------------------------------------------------------------------
(* JSON values *)

Num(n)  == [t |-> "num",  n |-> n, s |-> "", d |-> << >>]
Str(x)  == [t |-> "str",  n |-> 0, s |-> x,  d |-> << >>]
Obj(d)  == [t |-> "dict", n |-> 0, s |-> "", d |-> d]
Arr(d)  == [t |-> "list", n |-> 0, s |-> "", d |-> d]

E(key, val) == [k |-> key, v |-> val]

IsDict(val) == val.t = "dict"

(* Python dict operations on an ordered dict d *)

Keys(d) == { d[i].k : i \in 1..Len(d) }

Has(d, key) == \E i \in 1..Len(d) : d[i].k = key

Get(d, key) == d[CHOOSE i \in 1..Len(d) : d[i].k = key].v

Put(d, key, val) ==
    IF Has(d, key)
    THEN [i \in 1..Len(d) |-> IF d[i].k = key THEN E(key, val) ELSE d[i]]
    ELSE Append(d, E(key, val))

RECURSIVE PutAll(_, _, _)
\* for k, v in items: d[prefix_k] = v
PutAll(d, prefix, items) ==
    IF items = << >> THEN d
    ELSE PutAll(Put(d, prefix \o "_" \o Head(items).k, Head(items).v), prefix, Tail(items))


-----------------------------------------------------------------------------
(* flatten_financials: one level of nesting is flattened into a NEW dict, in *)
(* the iteration order of data; a later assignment to the same key wins.     *)

RECURSIVE flatten_financials_from(_, _)
flatten_financials_from(acc, items) ==
    IF items = << >> THEN acc
    ELSE LET e == Head(items) IN
         flatten_financials_from(
             IF IsDict(e.v) THEN PutAll(acc, e.k, e.v.d) ELSE Put(acc, e.k, e.v),
             Tail(items))

flatten_financials(d) == flatten_financials_from(<< >>, d)

(* process_data, first part: nested Revenue / Maintenance_CapEx /            *)
(* Acquisition_Count objects are flattened into data itself.                 *)

FlattenPrefixes == << "Revenue", "Maintenance_CapEx", "Acquisition_Count" >>

RECURSIVE FlattenNested(_, _)
FlattenNested(d, prefixes) ==
    IF prefixes = << >> THEN d
    ELSE LET p == Head(prefixes) IN
         FlattenNested(
             IF Has(d, p) /\ IsDict(Get(d, p)) THEN PutAll(d, p, Get(d, p).d) ELSE d,
             Tail(prefixes))

(* process_data, second part: additive renaming over the suffix list.        *)

key_mappings == << [old |-> "Maintenance_CapEx", new |-> "CapEx_Maint"],
                   [old |-> "Acquisition_Count", new |-> "Num_Acq"] >>

suffixes == << "Actual_1", "Actual_2", "Actual_3", "Expected",
               "Proj_Y1", "Proj_Y2", "Proj_Y3", "Proj_Y4", "Proj_Y5" >>

RECURSIVE RenameSuffixes(_, _, _, _)
RenameSuffixes(d, old, new, sfx) ==
    IF sfx = << >> THEN d
    ELSE LET old_key == old \o "_" \o Head(sfx)
             new_key == new \o "_" \o Head(sfx) IN
         RenameSuffixes(
             IF Has(d, old_key) THEN Put(d, new_key, Get(d, old_key)) ELSE d,
             old, new, Tail(sfx))

RECURSIVE RenameKeys(_, _)
RenameKeys(d, maps) ==
    IF maps = << >> THEN d
    ELSE RenameKeys(RenameSuffixes(d, Head(maps).old, Head(maps).new, suffixes),
                    Tail(maps))

(* lines 296-317 of process_data *)
FlattenAndRename(d) == RenameKeys(FlattenNested(d, FlattenPrefixes), key_mappings)

(* pick_metric_group *)

time_periods == << "Actual_1", "Actual_2", "Actual_3", "Expected",
                   "Proj_Y1", "Proj_Y2", "Proj_Y3", "Proj_Y4", "Proj_Y5" >>

candidates_key(field_prefix) == field_prefix \o "_Candidates"

field_name(field_prefix, period) == field_prefix \o "_" \o period

\* list(data[candidates_key].keys())
choices(d, field_prefix) ==
    LET c == Get(d, candidates_key(field_prefix)).d IN
    [i \in 1..Len(c) |-> c[i].k]

RECURSIVE ApplySelected(_, _, _, _)
ApplySelected(d, field_prefix, selected_values, periods) ==
    IF periods = << >> THEN d
    ELSE LET period == Head(periods) IN
         ApplySelected(
             IF IsDict(selected_values) /\ Has(selected_values.d, period)
             THEN Put(d, field_name(field_prefix, period), Get(selected_values.d, period))
             ELSE d,
             field_prefix, selected_values, Tail(periods))

RECURSIVE ApplySelectedDefaulting(_, _, _, _)
\* a resolver that defaults the periods the variant omits to 0
ApplySelectedDefaulting(d, field_prefix, selected_values, periods) ==
    IF periods = << >> THEN d
    ELSE LET period == Head(periods) IN
         ApplySelectedDefaulting(
             Put(d, field_name(field_prefix, period),
                 IF IsDict(selected_values) /\ Has(selected_values.d, period)
                 THEN Get(selected_values.d, period) ELSE Num(0)),
             field_prefix, selected_values, Tail(periods))

pick_metric_group_defaulting(d, field_prefix, sel) ==
    IF ~Has(d, candidates_key(field_prefix)) THEN d
    ELSE ApplySelectedDefaulting(d, field_prefix,
                       Get(Get(d, candidates_key(field_prefix)).d, sel),
                       time_periods)

pick_metric_group(d, field_prefix, sel) ==
    IF ~Has(d, candidates_key(field_prefix)) THEN d
    ELSE ApplySelected(d, field_prefix,
                       Get(Get(d, candidates_key(field_prefix)).d, sel),
                       time_periods)

\* the four calls process_data makes, in order (field_prefix argument)
PickCalls == << "EBITDA", "Revenue", "CapEx_Maint", "Num_Acq_Proj" >>

(* get_excel_mapping, in the order of the dict literal *)

M(key, sheet, cell) == [key |-> key, sheet |-> sheet, cell |-> cell]

get_excel_mapping ==
    << M("Revenue_Actual_1", "Model", "E20"),  M("Revenue_Actual_2", "Model", "F20"),
       M("Revenue_Actual_3", "Model", "G20"),  M("EBITDA_Actual_1", "Model", "E28"),
       M("EBITDA_Actual_2", "Model", "F28"),   M("EBITDA_Actual_3", "Model", "G28"),
       M("Revenue_Proj_Y1", "Model", "AC20"),  M("Revenue_Proj_Y2", "Model", "AD20"),
       M("Revenue_Proj_Y3", "Model", "AE20"),  M("Revenue_Proj_Y4", "Model", "AF20"),
       M("Revenue_Proj_Y5", "Model", "AG20"),  M("Revenue_Proj_Y6", "Model", "AH20"),
       M("EBITDA_Proj_Y1", "Model", "AC28"),   M("EBITDA_Proj_Y2", "Model", "AD28"),
       M("EBITDA_Proj_Y3", "Model", "AE28"),   M("EBITDA_Proj_Y4", "Model", "AF28"),
       M("EBITDA_Proj_Y5", "Model", "AG28"),   M("EBITDA_Proj_Y6", "Model", "AH28"),
       M("CapEx_Maint_Actual_1", "Model", "Z52"),  M("CapEx_Maint_Actual_2", "Model", "AA52"),
       M("CapEx_Maint_Actual_3", "Model", "AB52"), M("CapEx_Maint_Proj_Y1", "Model", "AC52"),
       M("CapEx_Maint_Proj_Y2", "Model", "AD52"),  M("CapEx_Maint_Proj_Y3", "Model", "AE52"),
       M("CapEx_Maint_Proj_Y4", "Model", "AF52"),  M("CapEx_Maint_Proj_Y5", "Model", "AG52"),
       M("CapEx_Maint_Proj_Y6", "Model", "AH52"),
       M("Num_Acq_Proj_Y1", "Acquisitions", "N13"), M("Num_Acq_Proj_Y2", "Acquisitions", "O13"),
       M("Num_Acq_Proj_Y3", "Acquisitions", "P13"), M("Num_Acq_Proj_Y4", "Acquisitions", "Q13"),
       M("Num_Acq_Proj_Y5", "Acquisitions", "R13"),
       M("Header_E17", "Model", "E17"),        M("Header_H17", "Model", "H17") >>

MappedKeys == { get_excel_mapping[i].key : i \in 1..Len(get_excel_mapping) }

Sheets == { get_excel_mapping[i].sheet : i \in 1..Len(get_excel_mapping) }

(* the mapping loop of update_excel_template (lines 384-390): one attempted *)
(* write per entry whose key is in flattened_data, in mapping order; a      *)
(* rejected write is caught inside the loop body and the loop goes on.      *)

\* wb[sheet_name][cell] = value raises when the sheet is missing (KeyError) or
\* the value cannot be stored in a cell (openpyxl rejects dict and list values)
WriteRejected(a, badSheets) == a.sheet \in badSheets \/ a.v.t \in {"dict", "list"}

Attempt(m, flat) ==
    [key |-> m.key, sheet |-> m.sheet, cell |-> m.cell, v |-> Get(flat, m.key)]

RECURSIVE MappingLoopAbortOnReject(_, _, _, _)
\* a mapping pass that gives up at the first rejected write
MappingLoopAbortOnReject(flat, mapping, badSheets, acc) ==
    IF mapping = << >> THEN acc
    ELSE LET m == Head(mapping) IN
         IF ~Has(flat, m.key)
         THEN MappingLoopAbortOnReject(flat, Tail(mapping), badSheets, acc)
         ELSE LET a == Attempt(m, flat) IN
              IF WriteRejected(a, badSheets)
              THEN [acc EXCEPT !.attempts = Append(@, a)]
              ELSE MappingLoopAbortOnReject(flat, Tail(mapping), badSheets,
                       [attempts |-> Append(acc.attempts, a),
                        cells |-> { c \in acc.cells : ~(c.sheet = a.sheet /\ c.cell = a.cell) }
                                  \cup { [sheet |-> a.sheet, cell |-> a.cell, v |-> a.v] }])

RECURSIVE MappingLoop(_, _, _, _)
MappingLoop(flat, mapping, badSheets, acc) ==
    IF mapping = << >> THEN acc
    ELSE LET m == Head(mapping) IN
         IF ~Has(flat, m.key)
         THEN MappingLoop(flat, Tail(mapping), badSheets, acc)
         ELSE LET a == Attempt(m, flat) IN
              MappingLoop(flat, Tail(mapping), badSheets,
                  [attempts |-> Append(acc.attempts, a),
                   cells |-> IF WriteRejected(a, badSheets) THEN acc.cells
                             ELSE { c \in acc.cells : ~(c.sheet = a.sheet /\ c.cell = a.cell) }
                                  \cup { [sheet |-> a.sheet, cell |-> a.cell, v |-> a.v] }])

-----------------------------------------------------------------------------
(* The model reply: a sequence of lexemes.  "fence" is the three-backtick    *)
(* marker, "json" the tag that may follow it, "ws" a run of whitespace,      *)
(* "prose" text that is no JSON, "value" one complete JSON text.             *)

Lx(kind)   == [kind |-> kind, v |-> Num(0)]
LxVal(val) == [kind |-> "value", v |-> val]

\* str.strip()
RECURSIVE LStrip(_)
LStrip(r) == IF r # << >> /\ Head(r).kind = "ws" THEN LStrip(Tail(r)) ELSE r

RECURSIVE RStrip(_)
RStrip(r) == IF r # << >> /\ r[Len(r)].kind = "ws" THEN RStrip(SubSeq(r, 1, Len(r) - 1)) ELSE r

Strip(r) == RStrip(LStrip(r))

\* positions where "```json" starts, and where "```" starts
JsonFenceAt(r) == { i \in 1..Len(r) - 1 : r[i].kind = "fence" /\ r[i + 1].kind = "json" }
FenceAt(r)     == { i \in 1..Len(r) : r[i].kind = "fence" }

Min(S) == CHOOSE x \in S : \A y \in S : x <= y

\* re.search(open (.*?) ```, DOTALL): leftmost opening, then the nearest fence.
\* openLen is the number of lexemes of the opening marker.  Returns << >> for
\* no match, else << group(1) >>.
FenceSearch(r, opens, openLen) ==
    LET ok == { i \in opens : \E j \in FenceAt(r) : j >= i + openLen } IN
    IF ok = {} THEN << >>
    ELSE LET i == Min(ok)
             j == Min({ j \in FenceAt(r) : j >= i + openLen }) IN
         << SubSeq(r, i + openLen, j - 1) >>

clean_json_response(response_text) ==
    LET cleaned_text == Strip(response_text) IN
    IF JsonFenceAt(cleaned_text) # {}
    THEN LET match == FenceSearch(cleaned_text, JsonFenceAt(cleaned_text), 2) IN
         IF match # << >> THEN Strip(match[1]) ELSE cleaned_text
    ELSE IF FenceAt(cleaned_text) # {}
    THEN LET match == FenceSearch(cleaned_text, FenceAt(cleaned_text), 1) IN
         IF match # << >> THEN Strip(match[1]) ELSE cleaned_text
    ELSE cleaned_text

\* json.loads: exactly one JSON text, surrounding whitespace allowed
JsonLoads(cleaned) ==
    LET c == Strip(cleaned) IN
    IF Len(c) = 1 /\ c[1].kind = "value"
    THEN [ok |-> TRUE, v |-> c[1].v]
    ELSE [ok |-> FALSE, v |-> Num(0)]

\* a parser that lets a non-object JSON value through as data
parse_ai_response_any_json(response_text) ==
    LET cleaned_json_text == clean_json_response(response_text)
        r == JsonLoads(cleaned_json_text) IN
    IF cleaned_json_text = << >> THEN [kind |-> "NoJsonFound", v |-> Num(0)]
    ELSE IF ~r.ok THEN [kind |-> "MalformedJson", v |-> Num(0)]
    ELSE IF r.v.d = << >> /\ IsDict(r.v) THEN [kind |-> "EmptyObject", v |-> r.v]
    ELSE [kind |-> "Data", v |-> r.v]

\* parse_ai_response together with the handlers around it
\* (extract_financials_with_ai lines 128-132): what the run does next.
\*   "NoJsonFound", "MalformedJson", "NotAnObject": the script is stopped;
\*   "EmptyObject": {} is returned; "Data": the object is returned.
parse_ai_response(response_text) ==
    LET cleaned_json_text == clean_json_response(response_text)
        r == JsonLoads(cleaned_json_text) IN
    IF cleaned_json_text = << >> THEN [kind |-> "NoJsonFound", v |-> Num(0)]
    ELSE IF ~r.ok THEN [kind |-> "MalformedJson", v |-> Num(0)]
    ELSE IF ~IsDict(r.v) THEN [kind |-> "NotAnObject", v |-> Num(0)]
    ELSE IF r.v.d = << >> THEN [kind |-> "EmptyObject", v |-> r.v]
    ELSE [kind |-> "Data", v |-> r.v]

-----------------------------------------------------------------------------
(* OCR text: a sequence of one-character strings.                            *)

Digits == { "0", "1", "2", "3", "4", "5", "6", "7", "8", "9" }

Letters ==
    { "A", "B", "C", "D", "E", "F", "G", "H", "I", "J", "K", "L", "M",
      "N", "O", "P", "Q", "R", "S", "T", "U", "V", "W", "X", "Y", "Z",
      "a", "b", "c", "d", "e", "f", "g", "h", "i", "j", "k", "l", "m",
      "n", "o", "p", "q", "r", "s", "t", "u", "v", "w", "x", "y", "z" }

\* \w
WordChars == Letters \cup Digits \cup { "_" }

\* \s, and what str.strip() removes
Whitespace == { " ", "\t", "\n", "\r", "\f" }

RECURSIVE SplitFrom(_, _, _)
\* text.split('\n'): cur is the line being read
SplitFrom(t, cur, acc) ==
    IF t = << >> THEN Append(acc, cur)
    ELSE IF Head(t) = "\n" THEN SplitFrom(Tail(t), << >>, Append(acc, cur))
    ELSE SplitFrom(Tail(t), Append(cur, Head(t)), acc)

SplitLines(t) == SplitFrom(t, << >>, << >>)

RECURSIVE LStripChars(_)
LStripChars(l) == IF l # << >> /\ Head(l) \in Whitespace THEN LStripChars(Tail(l)) ELSE l

RECURSIVE RStripChars(_)
RStripChars(l) ==
    IF l # << >> /\ l[Len(l)] \in Whitespace THEN RStripChars(SubSeq(l, 1, Len(l) - 1)) ELSE l

StripChars(l) == RStripChars(LStripChars(l))

RECURSIVE JoinWith(_, _)
\* sep.join(parts)
JoinWith(sep, parts) ==
    IF parts = << >> THEN << >>
    ELSE IF Len(parts) = 1 THEN parts[1]
    ELSE parts[1] \o sep \o JoinWith(sep, Tail(parts))

\* re.match(r"^[\d\$\(]", line)
StartsDataRow(line) == line # << >> /\ line[1] \in Digits \cup { "$", "(" }

RECURSIVE JoinLoopFlushOnBlank(_, _, _)
\* a joiner in which a blank line ends the label being collected
JoinLoopFlushOnBlank(lines, buffer, joined_lines) ==
    IF lines = << >>
    THEN IF buffer # << >> THEN Append(joined_lines, buffer) ELSE joined_lines
    ELSE LET line == StripChars(Head(lines)) IN
         IF line = << >>
         THEN JoinLoopFlushOnBlank(Tail(lines), << >>,
                  IF buffer # << >> THEN Append(joined_lines, buffer) ELSE joined_lines)
         ELSE IF StartsDataRow(line)
         THEN JoinLoopFlushOnBlank(Tail(lines), << >>,
                  Append(IF buffer # << >> THEN Append(joined_lines, buffer) ELSE joined_lines,
                         line))
         ELSE JoinLoopFlushOnBlank(Tail(lines),
                  IF buffer # << >> THEN buffer \o << " " >> \o line ELSE line,
                  joined_lines)

RECURSIVE JoinLoop(_, _, _)
\* the for loop of join_wrapped_labels and the final flush
JoinLoop(lines, buffer, joined_lines) ==
    IF lines = << >>
    THEN IF buffer # << >> THEN Append(joined_lines, buffer) ELSE joined_lines
    ELSE LET line == StripChars(Head(lines)) IN
         IF line = << >>
         THEN JoinLoop(Tail(lines), buffer, joined_lines)
         ELSE IF StartsDataRow(line)
         THEN JoinLoop(Tail(lines), << >>,
                  Append(IF buffer # << >> THEN Append(joined_lines, buffer) ELSE joined_lines,
                         line))
         ELSE JoinLoop(Tail(lines),
                  IF buffer # << >> THEN buffer \o << " " >> \o line ELSE line,
                  joined_lines)

join_wrapped_labels(t) == JoinWith(<< "\n" >>, JoinLoop(SplitLines(t), << >>, << >>))

\* number of whitespace characters of t from position i on
RECURSIVE WsRun(_, _)
WsRun(t, i) == IF i <= Len(t) /\ t[i] \in Whitespace THEN 1 + WsRun(t, i + 1) ELSE 0

RECURSIVE BreakBeforeDollar(_, _)
\* re.sub(r"(?<=\d)\s*(?=\$\d)", "\n", text), scanning from position i
BreakBeforeDollar(t, i) ==
    IF i > Len(t) THEN << >>
    ELSE LET q == i + WsRun(t, i)
             hit == /\ i > 1 /\ t[i - 1] \in Digits
                    /\ q + 1 <= Len(t) /\ t[q] = "$" /\ t[q + 1] \in Digits IN
         IF hit /\ q > i THEN << "\n" >> \o BreakBeforeDollar(t, q)
         ELSE IF hit THEN << "\n", t[i] >> \o BreakBeforeDollar(t, i + 1)
         ELSE << t[i] >> \o BreakBeforeDollar(t, i + 1)

\* the alternatives of junk_patterns[0], in order
JunkTokens ==
    << << "J", "o", "a", "n", " ", "C", "o", "m", "p" >>,
       << "O", "V", "E", "R", "V", "I", "E", "W" >>,
       << "o", "n", "e", "n", "t", "i", "a", "l", " ", "-", " ", "N", "o", "t", " ", "F", "o", "r", " ", "D", "i", "s", "t", "r", "i", "b", "u", "t", "i", "o", "n" >>,
       << "6", "." >>,
       << "F", "I", "N", "A", "N", "C", "I", "A", "L" >> >>

\* \b between positions i-1 and i of t
WordBoundary(t, i) ==
    (i > 1 /\ t[i - 1] \in WordChars) # (i <= Len(t) /\ t[i] \in WordChars)

\* length of the junk token matched at position i (0 for no match)
JunkAt(t, i) ==
    LET hits == { n \in 1..Len(JunkTokens) :
                    /\ WordBoundary(t, i)
                    /\ i + Len(JunkTokens[n]) - 1 <= Len(t)
                    /\ SubSeq(t, i, i + Len(JunkTokens[n]) - 1) = JunkTokens[n]
                    /\ WordBoundary(t, i + Len(JunkTokens[n])) } IN
    IF hits = {} THEN 0 ELSE Len(JunkTokens[Min(hits)])

RECURSIVE RemoveJunk(_, _)
\* re.sub(pattern, "", text), scanning from position i
RemoveJunk(t, i) ==
    IF i > Len(t) THEN << >>
    ELSE IF JunkAt(t, i) > 0 THEN RemoveJunk(t, i + JunkAt(t, i))
    ELSE << t[i] >> \o RemoveJunk(t, i + 1)

RECURSIVE CollapseSpacing(_, _)
\* re.sub(r"\s{2,}", " ", text), scanning from position i
CollapseSpacing(t, i) ==
    IF i > Len(t) THEN << >>
    ELSE IF WsRun(t, i) >= 2 THEN << " " >> \o CollapseSpacing(t, i + WsRun(t, i))
    ELSE << t[i] >> \o CollapseSpacing(t, i + 1)

preclean_combined_text(raw_text) ==
    CollapseSpacing(RemoveJunk(BreakBeforeDollar(join_wrapped_labels(raw_text), 1), 1), 1)

-----------------------------------------------------------------------------
(* Inputs of a run: what the extraction model may answer.                    *)

MaxKeys == 3        \* top-level keys of a returned object
MaxReplyLen == 4    \* lexemes of a fenced / free-form reply

P1(p, n)        == << E(p, Num(n)) >>
P2(p, n, q, m)  == << E(p, Num(n)), E(q, Num(m)) >>

NoDataSentinel == << E("error", Str("No financial data found")) >>

\* top-level entries the returned object is built from: flat values are 1,
\* nested values 2, candidate variants 3 (first label) and 4 (second label)
Universe ==
    { E("Revenue_Actual_1", Num(1)),
      E("Revenue", Obj(P2("Actual_1", 2, "Proj_Y1", 2))),
      E("Revenue_Candidates",
        Obj(<< E("A", Obj(P1("Actual_1", 3))),
               E("B", Obj(P2("Actual_1", 4, "Proj_Y1", 4))) >>)),
      E("EBITDA_Actual_1", Num(1)),
      E("EBITDA", Obj(P1("Actual_1", 2))),
      E("EBITDA_Candidates",
        Obj(<< E("Adj.", Obj(P2("Actual_1", 3, "Proj_Y1", 3))),
               E("Rep.", Obj(P2("Actual_1", 4, "Proj_Y6", 4))) >>)),
      E("Maintenance_CapEx", Obj(P2("Actual_1", 2, "Proj_Y6", 2))),
      E("CapEx_Maint_Candidates", Obj(<< E("Only", Obj(P1("Proj_Y1", 3))) >>)),
      E("Acquisition_Count_Proj_Y1", Num(1)),
      E("Num_Acq_Candidates", Obj(<< E("Plan", Obj(P1("Proj_Y1", 3))) >>)),
      E("Num_Acq_Proj_Candidates",
        Obj(<< E("X", Obj(P1("Proj_Y1", 3))), E("Y", Num(4)) >>)),
      NoDataSentinel[1] }

\* objects with at most MaxKeys distinct keys, in every key order
Dicts ==
    UNION { { f \in [1..n -> Universe] :
                \A i, j \in 1..n : i # j => f[i].k # f[j].k } : n \in 1..MaxKeys }

LexAlphabet ==
    { Lx("fence"), Lx("json"), Lx("ws"), Lx("prose"),
      LxVal(Obj(<< E("Revenue_Actual_1", Num(1)) >>)),
      LxVal(Arr(<< >>)) }

\* message.content of the API response
Contents ==
    { << >> }
    \cup UNION { [1..n -> LexAlphabet] : n \in 1..MaxReplyLen }
    \cup { << LxVal(Obj(d)) >> : d \in Dicts }
    \cup { << LxVal(Obj(<< >>)) >> }

-----------------------------------------------------------------------------
(* run(): one script execution.                                              *)

RunInit ==
    /\ pc = "run"
    /\ outcome = "running"
    /\ calls = 0
    /\ reply = << >>
    /\ parsed = Num(0)
    /\ data = << >>
    /\ pickIdx = 0
    /\ selected = << >>
    /\ reached = {}
    /\ flattened = << >>
    /\ attempts = << >>
    /\ cells = {}
    /\ download = FALSE

TextIdle ==
    /\ text = << >>
    /\ out1 = << >>
    /\ out2 = << >>
    /\ tpc = "idle"

Init == RunInit /\ TextIdle

\* run lines 408-421: nothing happens without an uploaded file
Upload ==
    /\ pc = "run"
    /\ \E uploaded \in BOOLEAN :
         IF uploaded
         THEN pc' = "extract" /\ outcome' = outcome
         ELSE pc' = "done" /\ outcome' = "NoUpload"
    /\ UNCHANGED << calls, reply, parsed, data, pickIdx, selected, reached,
                    flattened, attempts, cells, download >>
    /\ UNCHANGED textVars

\* extract_financials_with_ai lines 108-126 and 130-132: the API call raises,
\* answers nothing, or answers response_text
CallOpenAI ==
    /\ pc = "extract"
    /\ calls' = calls + 1
    /\ \E raised \in BOOLEAN, content \in Contents :
         IF raised \/ content = << >> \/ Strip(content) = << >>
         THEN /\ pc' = "stopped"
              /\ outcome' = "RemoteCallFailure"
              /\ reply' = reply
         ELSE /\ pc' = "parse"
              /\ outcome' = outcome
              /\ reply' = Strip(content)
    /\ UNCHANGED << parsed, data, pickIdx, selected, reached,
                    flattened, attempts, cells, download >>
    /\ UNCHANGED textVars

\* parse_ai_response, the except clause around it, and run lines 427-428
ParseResponse ==
    /\ pc = "parse"
    /\ LET r == parse_ai_response(reply) IN
         IF r.kind \in {"NoJsonFound", "MalformedJson", "NotAnObject"}
         THEN /\ pc' = "stopped"
              /\ outcome' = r.kind
              /\ UNCHANGED << parsed, data >>
         ELSE IF r.kind = "EmptyObject"
         THEN /\ pc' = "done"
              /\ outcome' = "EmptyObject"
              /\ parsed' = r.v
              /\ data' = data
         ELSE /\ pc' = "process"
              /\ outcome' = outcome
              /\ parsed' = r.v
              /\ data' = r.v.d
    /\ UNCHANGED << calls, reply, pickIdx, selected, reached,
                    flattened, attempts, cells, download >>
    /\ UNCHANGED textVars

\* process_data lines 296-317
ProcessData ==
    /\ pc = "process"
    /\ data' = FlattenAndRename(data)
    /\ reached' = reached \cup {"process_data"}
    /\ pickIdx' = 1
    /\ pc' = "pick"
    /\ UNCHANGED << outcome, calls, reply, parsed, selected,
                    flattened, attempts, cells, download >>
    /\ UNCHANGED textVars

\* process_data lines 320-323: the next pick_metric_group call; the label is
\* the only one, or the user's choice (st.radio)
Pick ==
    /\ pc = "pick"
    /\ LET field_prefix == PickCalls[pickIdx] IN
         IF ~Has(data, candidates_key(field_prefix))
         THEN selected' = Append(selected, "") /\ data' = data
         ELSE LET ch == choices(data, field_prefix) IN
              \E sel \in { ch[i] : i \in 1..Len(ch) } :
                 /\ selected' = Append(selected, sel)
                 /\ data' = pick_metric_group(data, field_prefix, sel)
    /\ pickIdx' = pickIdx + 1
    /\ pc' = IF pickIdx = Len(PickCalls) THEN "excel" ELSE "pick"
    /\ UNCHANGED << outcome, calls, reply, parsed, reached,
                    flattened, attempts, cells, download >>
    /\ UNCHANGED textVars

\* update_excel_template and run lines 434-442: the template loads or not;
\* badSheets are the sheets the workbook lacks
UpdateExcel ==
    /\ pc = "excel"
    /\ reached' = reached \cup {"update_excel_template"}
    /\ pc' = "done"
    /\ \E loaded \in BOOLEAN, badSheets \in SUBSET Sheets :
         IF ~loaded
         THEN /\ outcome' = "TemplateError"
              /\ UNCHANGED << flattened, attempts, cells, download >>
         ELSE LET flat == flatten_financials(data)
                  res == MappingLoop(flat, get_excel_mapping, badSheets,
                                     [attempts |-> << >>, cells |-> {}]) IN
              /\ outcome' = "Downloaded"
              /\ flattened' = flat
              /\ attempts' = res.attempts
              /\ cells' = res.cells
              /\ download' = TRUE
    /\ UNCHANGED << calls, reply, parsed, data, pickIdx, selected >>
    /\ UNCHANGED textVars

Next == Upload \/ CallOpenAI \/ ParseResponse \/ ProcessData \/ Pick \/ UpdateExcel

Spec == Init /\ [][Next]_vars

-----------------------------------------------------------------------------
(* The label joiner on its own: join_wrapped_labels applied to a raw text.   *)

MaxLen == 5         \* characters of a raw text given to join_wrapped_labels

JoinAlphabet == { "a", "1", "$", "(", " ", "\n" }

JoinTexts == UNION { [1..n -> JoinAlphabet] : n \in 0..MaxLen }

InitJoin ==
    /\ RunInit
    /\ text \in JoinTexts
    /\ out1 = << >>
    /\ out2 = << >>
    /\ tpc = "raw"

JoinLabels ==
    /\ tpc = "raw"
    /\ out1' = join_wrapped_labels(text)
    /\ tpc' = "joined"
    /\ UNCHANGED << text, out2 >>
    /\ UNCHANGED runVars

NextJoin == JoinLabels

SpecJoin == InitJoin /\ [][NextJoin]_vars

(* The normaliser applied twice: preclean_combined_text on a raw text, then  *)
(* on its own output.  A raw text is a concatenation of pieces.              *)

MaxPieces == 5      \* pieces of a raw text given to preclean_combined_text

Pieces == { << "a" >>, << "1" >>, << "$" >>, << " " >>, << "\n" >>, JunkTokens[2] }

RECURSIVE Concat(_)
Concat(ps) == IF ps = << >> THEN << >> ELSE Head(ps) \o Concat(Tail(ps))

CleanTexts == { Concat(ps) : ps \in UNION { [1..n -> Pieces] : n \in 0..MaxPieces } }

InitClean ==
    /\ RunInit
    /\ text \in CleanTexts
    /\ out1 = << >>
    /\ out2 = << >>
    /\ tpc = "raw"

Preclean ==
    /\ tpc = "raw"
    /\ out1' = preclean_combined_text(text)
    /\ tpc' = "clean"
    /\ UNCHANGED << text, out2 >>
    /\ UNCHANGED runVars

PrecleanAgain ==
    /\ tpc = "clean"
    /\ out2' = preclean_combined_text(out1)
    /\ tpc' = "clean2"
    /\ UNCHANGED << text, out1 >>
    /\ UNCHANGED runVars

NextClean == Preclean \/ PrecleanAgain

SpecClean == InitClean /\ [][NextClean]_vars

-----------------------------------------------------------------------------
(* Properties of a run (Spec).                                               *)

AfterProcessData == pc \in {"excel", "done"} /\ "process_data" \in reached

Written == pc = "done" /\ outcome = "Downloaded"

\* the set of labels of d[<prefix>_Candidates]
Labels(d, field_prefix) ==
    LET c == Get(d, candidates_key(field_prefix)).d IN { c[i].k : i \in 1..Len(c) }

Variant(d, field_prefix, label) == Get(Get(d, candidates_key(field_prefix)).d, label)

Defines(variant, period) == IsDict(variant) /\ Has(variant.d, period)

\* the period vocabulary of the resolver and of renaming (9 periods)
PeriodVocabulary ==
    { "Actual_1", "Actual_2", "Actual_3", "Expected",
      "Proj_Y1", "Proj_Y2", "Proj_Y3", "Proj_Y4", "Proj_Y5" }

\* the periods for which the mapping table has a cell
MappedPeriods ==
    { "Actual_1", "Actual_2", "Actual_3",
      "Proj_Y1", "Proj_Y2", "Proj_Y3", "Proj_Y4", "Proj_Y5", "Proj_Y6" }

(* C1: when the reply parses to {"error": "No financial data found"} the run *)
(* ends in a "no data" outcome: the object is not handed to process_data,    *)
(* no candidate is resolved, no cell write is attempted and no download is   *)
(* offered.                                                                  *)
C1_NoDataSentinelEndsRun ==
    parsed = Obj(NoDataSentinel) =>
        /\ "process_data" \notin reached
        /\ "update_excel_template" \notin reached
        /\ selected = << >>
        /\ attempts = << >>
        /\ ~download

\* the effect of one pick_metric_group call on data, for the label chosen in it
C2_PickEffect ==
    LET field_prefix == PickCalls[pickIdx] IN
    IF ~Has(data, candidates_key(field_prefix))
    THEN data' = data
    ELSE LET label == selected'[pickIdx]
             variant == Variant(data, field_prefix, label)
             written == { field_name(field_prefix, p) :
                            p \in { q \in PeriodVocabulary : Defines(variant, q) } } IN
         /\ label \in Labels(data, field_prefix)
         /\ \A p \in PeriodVocabulary :
               Defines(variant, p) =>
                  /\ Has(data', field_name(field_prefix, p))
                  /\ Get(data', field_name(field_prefix, p)) = Get(variant.d, p)
         /\ Keys(data') \ written = Keys(data) \ written
         /\ \A k \in Keys(data) \ written : Get(data', k) = Get(data, k)

(* C2: one pick_metric_group(data, prefix) call.  Without                    *)
(* "<prefix>_Candidates" data is unchanged.  With it, for the selected label *)
(* every vocabulary period the variant defines holds the variant's value     *)
(* afterwards, and every other key (also "<prefix>_<p>" for an omitted       *)
(* period p) is present afterwards exactly when it was before, with the same *)
(* value.                                                                    *)
C2_PickFrame == [][pc = "pick" => C2_PickEffect]_vars

\* Revenue resolved to "A", which defines Actual_1 only: the flat
\* Revenue_Actual_1 the reply carried is overwritten by 3, and
\* Revenue_Proj_Y1 (from the nested Revenue object) keeps its 2
C2_Witness ==
    /\ pc = "pick" /\ pickIdx = 3
    /\ selected[2] = "A"
    /\ Has(parsed.d, "Revenue_Actual_1")
    /\ Get(data, "Revenue_Actual_1") = Num(3)
    /\ Has(data, "Revenue_Proj_Y1") /\ Get(data, "Revenue_Proj_Y1") = Num(2)

\* one write per mapping entry whose key is in the flattened result
C3_ExpectedWrites ==
    { [key |-> get_excel_mapping[i].key, sheet |-> get_excel_mapping[i].sheet,
       cell |-> get_excel_mapping[i].cell, v |-> Get(flattened, get_excel_mapping[i].key)] :
         i \in { j \in 1..Len(get_excel_mapping) : Has(flattened, get_excel_mapping[j].key) } }

(* C3: in the mapping pass of update_excel_template a write of               *)
(* flattened[key] to (sheet, cell) is attempted for exactly the mapping      *)
(* entries whose key is in the flattened result, once each, whatever writes  *)
(* the sink rejected; a result holding only Revenue_Actual_1 gives exactly   *)
(* one write, to (Model, E20).                                               *)
C3_WritesIffPresent ==
    Written =>
        /\ { attempts[i] : i \in 1..Len(attempts) } = C3_ExpectedWrites
        /\ Len(attempts) = Cardinality(C3_ExpectedWrites)
        /\ Keys(flattened) = {"Revenue_Actual_1"} =>
              attempts = << [key |-> "Revenue_Actual_1", sheet |-> "Model", cell |-> "E20",
                             v |-> Get(flattened, "Revenue_Actual_1")] >>

\* a rejected write (its cell was not overwritten) followed by a later entry
\* whose write went through, with some mapped key missing
C3_Witness ==
    /\ Written
    /\ \E i, j \in 1..Len(attempts) :
          /\ i < j
          /\ [sheet |-> attempts[i].sheet, cell |-> attempts[i].cell, v |-> attempts[i].v] \notin cells
          /\ [sheet |-> attempts[j].sheet, cell |-> attempts[j].cell, v |-> attempts[j].v] \in cells
    /\ \E k \in MappedKeys : ~Has(flattened, k)

\* the reply holds no JSON, malformed JSON, or a JSON value that is no object
C4_ParseFails(r) ==
    LET cleaned == clean_json_response(r) IN
    \/ cleaned = << >>
    \/ ~JsonLoads(cleaned).ok
    \/ ~IsDict(JsonLoads(cleaned).v)

(* C4: if the model call fails or answers nothing, or the reply fails        *)
(* parsing (no JSON found, malformed JSON, a JSON value that is no object),  *)
(* the run stops there: process_data and update_excel_template are never     *)
(* reached, no cell write is attempted or made, nothing is offered for       *)
(* download, and the model is called at most once.                           *)
C4_FailFast ==
    /\ calls <= 1
    /\ ( \/ outcome = "RemoteCallFailure"
         \/ (calls = 1 /\ pc \notin {"extract", "parse"} /\ outcome # "RemoteCallFailure"
             /\ C4_ParseFails(reply)) )
       => /\ pc = "stopped"
          /\ reached = {}
          /\ attempts = << >>
          /\ cells = {}
          /\ ~download

\* a reply with a closed json fence around a JSON array has stopped the run
C4_Witness ==
    /\ pc = "stopped"
    /\ outcome = "NotAnObject"
    /\ calls = 1
    /\ JsonFenceAt(reply) # {}

\* the trimmed interior of the first closed json-tagged block, and whether there is one
C5_FirstJsonBlock(r) ==
    LET i == Min(JsonFenceAt(r))
        j == Min({ n \in FenceAt(r) : n >= i + 2 }) IN
    Strip(SubSeq(r, i + 2, j - 1))

C5_JsonFenceClosed(r) ==
    JsonFenceAt(r) # {} /\ \E n \in FenceAt(r) : n >= Min(JsonFenceAt(r)) + 2

(* C5: a reply with an opening json-tagged fence and no closing fence fails  *)
(* with NoJsonFound; with a closed json-tagged fence the text parsed is the  *)
(* trimmed interior of the first such block.                                 *)
C5_UnclosedFenceIsNoJsonFound ==
    (calls = 1 /\ pc \notin {"extract", "parse"} /\ outcome # "RemoteCallFailure") =>
        /\ (JsonFenceAt(reply) # {} /\ ~C5_JsonFenceClosed(reply)) => outcome = "NoJsonFound"
        /\ C5_JsonFenceClosed(reply) => clean_json_response(reply) = C5_FirstJsonBlock(reply)

\* the canonical prefixes of the four metric families
C6_Prefixes == { "Revenue", "EBITDA", "CapEx_Maint", "Num_Acq" }

(* C6: for each prefix in {Revenue, EBITDA, CapEx_Maint, Num_Acq}: if the    *)
(* extraction result holds "<prefix>_Candidates", then after process_data    *)
(* there is a label of it (the selected one) such that every period the      *)
(* variant defines has "<prefix>_<p>" equal to the variant's value.          *)
C6_AllFamiliesResolved ==
    AfterProcessData =>
        \A field_prefix \in C6_Prefixes :
            Has(parsed.d, candidates_key(field_prefix)) =>
                \E label \in Labels(parsed.d, field_prefix) :
                    \A p \in PeriodVocabulary :
                        Defines(Variant(parsed.d, field_prefix, label), p) =>
                            /\ Has(data, field_name(field_prefix, p))
                            /\ Get(data, field_name(field_prefix, p))
                                 = Get(Variant(parsed.d, field_prefix, label).d, p)

(* C7: right after the flatten and rename passes of process_data, for each   *)
(* alias pair old -> new and every period suffix s (the vocabulary and every *)
(* suffix with a mapped canonical key, Proj_Y6 included): if "<old>_<s>" is  *)
(* present then "<new>_<s>" is present with the same value.                  *)
C7_RenameCoversAllSuffixes ==
    (pc = "pick" /\ pickIdx = 1) =>
        \A m \in { key_mappings[i] : i \in 1..Len(key_mappings) } :
            \A s \in PeriodVocabulary \cup MappedPeriods :
                Has(data, m.old \o "_" \o s) =>
                    /\ Has(data, m.new \o "_" \o s)
                    /\ Get(data, m.new \o "_" \o s) = Get(data, m.old \o "_" \o s)

(* C9: end to end, for each resolved family (EBITDA, Revenue, CapEx_Maint)   *)
(* and every period p the selected variant defines whose "<prefix>_<p>" is a *)
(* mapped key, the value written for that key is the variant's value,        *)
(* whatever the key order of the result.                                     *)
C9_ResolvedValueIsWritten ==
    Written =>
        \A i \in 1..3 :
            selected[i] # "" =>
                \A p \in PeriodVocabulary :
                    ( /\ Defines(Variant(parsed.d, PickCalls[i], selected[i]), p)
                      /\ field_name(PickCalls[i], p) \in MappedKeys )
                    => \E n \in 1..Len(attempts) :
                          /\ attempts[n].key = field_name(PickCalls[i], p)
                          /\ attempts[n].v = Get(Variant(parsed.d, PickCalls[i], selected[i]).d, p)

-----------------------------------------------------------------------------
(* Properties of the text normaliser (SpecClean, SpecJoin).                  *)

(* C8: normalising a normalised text changes nothing:                        *)
(* preclean_combined_text(preclean_combined_text(x)) =                       *)
(* preclean_combined_text(x) for every raw text x.                           *)
C8_PrecleanIdempotent == tpc = "clean2" => out2 = out1

\* the lines of a text; the empty text has none
LinesOf(t) == IF t = << >> THEN << >> ELSE SplitLines(t)

NonBlank(l) == \E i \in 1..Len(l) : l[i] \notin Whitespace

\* first non-whitespace character is not a digit, "$" or "("
LabelFragment(l) ==
    /\ NonBlank(l)
    /\ LET i == Min({ n \in 1..Len(l) : l[n] \notin Whitespace }) IN
       l[i] \notin { "0", "1", "2", "3", "4", "5", "6", "7", "8", "9", "$", "(" }

\* the non-blank lines of t, in order
C10_InputLines(t) == SelectSeq(LinesOf(t), NonBlank)

\* the output line each non-blank input line goes to: a label fragment that
\* follows a label fragment stays on its line, every other line opens one
RECURSIVE C10_LineOf(_, _)
C10_LineOf(L, i) ==
    IF i = 1 THEN 1
    ELSE IF LabelFragment(L[i - 1]) /\ LabelFragment(L[i])
    THEN C10_LineOf(L, i - 1)
    ELSE C10_LineOf(L, i - 1) + 1

\* the stripped input lines that go to output line j, joined by single spaces
RECURSIVE C10_Gather(_, _, _)
C10_Gather(L, j, i) ==
    IF i > Len(L) THEN << >>
    ELSE IF C10_LineOf(L, i) # j THEN C10_Gather(L, j, i + 1)
    ELSE LET rest == C10_Gather(L, j, i + 1) IN
         IF rest = << >> THEN StripChars(L[i]) ELSE StripChars(L[i]) \o << " " >> \o rest

(* C10: the output of join_wrapped_labels has no blank line and no two       *)
(* adjacent label lines; each maximal run of consecutive (non-blank) label   *)
(* fragments is one output line, the stripped fragments in input order       *)
(* joined by single spaces; each data-row line is an output line of its own; *)
(* the lines keep the input order.                                           *)
C10_JoinedLines ==
    tpc = "joined" =>
        LET L == C10_InputLines(text)
            Y == LinesOf(out1) IN
        /\ \A j \in 1..Len(Y) : NonBlank(Y[j])
        /\ \A j \in 1..Len(Y) - 1 : ~(LabelFragment(Y[j]) /\ LabelFragment(Y[j + 1]))
        /\ Len(Y) = IF L = << >> THEN 0 ELSE C10_LineOf(L, Len(L))
        /\ \A j \in 1..Len(Y) : Y[j] = C10_Gather(L, j, 1)
        /\ \A i \in 1..Len(L) :
              ~LabelFragment(L[i]) => Y[C10_LineOf(L, i)] = StripChars(L[i])

\* two wrapped label fragments, then a data row: one joined label line
\* immediately before the data row
C10_Witness ==
    /\ tpc = "joined"
    /\ text = << "a", "\n", "a", "\n", "1" >>
    /\ out1 = << "a", " ", "a", "\n", "1" >>

=============================================================================
